---- MODULE Spec2Model ----
(***************************************************************************)
(* The three exam data readers of DataAndCodeForExam:                      *)
(*   DataReader_Problem4.1_LargestPopulation.py   (script "LP")            *)
(*   DataReader_Problem5.1_SignalDetection.py     (script "SD")            *)
(*   DataReader_Problem5.2_DecayTimes.py          (script "DT")            *)
(* Each is a straight-line program: np.genfromtxt loads a text file into   *)
(* an array, the shape is printed, columns are sliced (two of them cast    *)
(* to int in SD) and samples are printed.                                  *)
(*                                                                         *)
(* A file is a sequence of lines; a line is the sequence of its fields as  *)
(* the script's delimiter splits it (<<>> is a blank line).  A float is    *)
(* [k |-> "num", t |-> tenths], [k |-> "nan"] or, after an invalid cast,   *)
(* [k |-> "intmin"]; t counts tenths, so 2.5 is t = 25 and the int 2 is    *)
(* t = 20.  An array is [dtype, shape, flat, base]: flat holds the cells   *)
(* in row-major order, base = "data" marks a view into data's storage and  *)
(* base = "none" an array that owns its cells.                             *)
(***************************************************************************)
EXTENDS Integers, Sequences, FiniteSets, TLC

VARIABLES script, exists, file, pc, status, err, data, env, out

vars == <<script, exists, file, pc, status, err, data, env, out>>

\* ---------------------------------------------------------------- bounds
MaxDataLines == 11
MaxSeed == 6

\* ---------------------------------------------------------------- values
Scripts == {"LP", "SD", "DT"}

VarNames == {"year", "PopIndia", "PopChina", "index", "P", "R", "freq", "type"}

Num(t) == [k |-> "num", t |-> t]
NaN == [k |-> "nan", t |-> 0]
IntMin == [k |-> "intmin", t |-> 0]

NoArr == [dtype |-> "none", shape |-> <<>>, flat |-> <<>>, base |-> "none"]

Min(a, b) == IF a <= b THEN a ELSE b
Abs(a) == IF a >= 0 THEN a ELSE -a

\* The numeric field texts the files are built from, and float() of a field:
\* a number for a numeric text, ValueError otherwise.
NumTok == <<"0", "1", "-1", "2.5", "-2.5", "7", "12">>

IsNumeric(tok) == \E i \in 1..Len(NumTok) : NumTok[i] = tok

float(tok) ==
  CASE tok = "0" -> Num(0)
    [] tok = "1" -> Num(10)
    [] tok = "-1" -> Num(-10)
    [] tok = "2.5" -> Num(25)
    [] tok = "-2.5" -> Num(-25)
    [] tok = "7" -> Num(70)
    [] tok = "12" -> Num(120)
    [] OTHER -> [k |-> "ValueError", t |-> 0]

\* StringConverter._loose_call with the float default: the value, or nan
\* when float() raises (genfromtxt is called with loose=True by default).
loose_call(tok) == IF float(tok).k = "ValueError" THEN NaN ELSE float(tok)

\* ---------------------------------------------------------------- programs
\* One record per statement: the source line, the operation, the variable it
\* assigns or prints, and its integer argument (skip_header, column, stop).
Stmt(line, op, var, k) == [line |-> line, op |-> op, var |-> var, k |-> k]

\* LargestPopulation printing a ten-row sample like DecayTimes does.
Prog_LP_head == <<
  Stmt(19, "genfromtxt", "data", 1),
  Stmt(20, "print_shape", "data", 0),
  Stmt(22, "col", "year", 0),
  Stmt(23, "col", "PopIndia", 1),
  Stmt(24, "col", "PopChina", 2),
  Stmt(26, "print_head", "year", 10),
  Stmt(27, "print_head", "PopIndia", 10),
  Stmt(28, "print_head", "PopChina", 10) >>

Prog_LP == <<
  Stmt(19, "genfromtxt", "data", 1),
  Stmt(20, "print_shape", "data", 0),
  Stmt(22, "col", "year", 0),
  Stmt(23, "col", "PopIndia", 1),
  Stmt(24, "col", "PopChina", 2),
  Stmt(26, "print", "year", 0),
  Stmt(27, "print", "PopIndia", 0),
  Stmt(28, "print", "PopChina", 0) >>

Prog_SD == <<
  Stmt(21, "genfromtxt", "data", 1),
  Stmt(22, "print_shape", "data", 0),
  Stmt(24, "col_astype_int", "index", 0),
  Stmt(25, "col", "P", 1),
  Stmt(26, "col", "R", 2),
  Stmt(27, "col", "freq", 3),
  Stmt(28, "col_astype_int", "type", 4),
  Stmt(30, "print_head", "index", 3),
  Stmt(31, "print_head", "P", 3),
  Stmt(32, "print_head", "R", 3),
  Stmt(33, "print_head", "freq", 3),
  Stmt(34, "print_head", "type", 3) >>

Prog_DT == <<
  Stmt(16, "genfromtxt", "data", 0),
  Stmt(17, "print_shape", "data", 0),
  Stmt(20, "print_head", "data", 10) >>

Prog(s) == CASE s = "LP" -> Prog_LP [] s = "SD" -> Prog_SD [] OTHER -> Prog_DT

\* ---------------------------------------------------------------- numpy
\* A result that keeps its two axes (what ndmin=2 would give).
squeeze_keep2d(a) == a

\* np.squeeze, applied by genfromtxt (ndmin=0) to its result: axes of
\* length one are removed.
squeeze(a) == [a EXCEPT !.shape = SelectSeq(a.shape, LAMBDA d : d # 1)]

\* A reader that drops the lines of the wrong width instead of raising
\* (what invalid_raise=False would give).
genfromtxt_noraise(present, f, skip_header) ==
  IF ~present THEN [err |-> "OSError", arr |-> NoArr]
  ELSE
    LET body == IF Len(f) <= skip_header THEN <<>>
                ELSE SubSeq(f, skip_header + 1, Len(f))
        nonblank == SelectSeq(body, LAMBDA l : Len(l) > 0)
    IN IF Len(nonblank) = 0
       THEN [err |-> "none",
             arr |-> [dtype |-> "float64", shape |-> <<0>>, flat |-> <<>>,
                      base |-> "none"]]
       ELSE
         LET nbcols == Len(nonblank[1])
             rows == SelectSeq(nonblank, LAMBDA l : Len(l) = nbcols)
         IN [err |-> "none",
             arr |-> squeeze(
               [dtype |-> "float64",
                shape |-> <<Len(rows), nbcols>>,
                flat |-> [j \in 1..(Len(rows) * nbcols) |->
                            loose_call(rows[((j - 1) \div nbcols) + 1]
                                           [((j - 1) % nbcols) + 1])],
                base |-> "none"])]

\* np.genfromtxt(fname, delimiter, skip_header) with the defaults
\* dtype=float, loose=True, invalid_raise=True, ndmin=0.
genfromtxt(present, f, skip_header) ==
  IF ~present THEN [err |-> "OSError", arr |-> NoArr]
  ELSE
    LET body == IF Len(f) <= skip_header THEN <<>>
                ELSE SubSeq(f, skip_header + 1, Len(f))
        rows == SelectSeq(body, LAMBDA l : Len(l) > 0)
    IN IF Len(rows) = 0
       THEN [err |-> "none",
             arr |-> [dtype |-> "float64", shape |-> <<0>>, flat |-> <<>>,
                      base |-> "none"]]
       ELSE
         LET nbcols == Len(rows[1])
             invalid == SelectSeq(rows, LAMBDA l : Len(l) # nbcols)
         IN IF Len(invalid) > 0
            THEN [err |-> "ValueError", arr |-> NoArr]
            ELSE [err |-> "none",
                  arr |-> squeeze(
                    [dtype |-> "float64",
                     shape |-> <<Len(rows), nbcols>>,
                     flat |-> [j \in 1..(Len(rows) * nbcols) |->
                                 loose_call(rows[((j - 1) \div nbcols) + 1]
                                                [((j - 1) % nbcols) + 1])],
                     base |-> "none"])]

\* A column read with the two axes exchanged (column-major indexing).
Column_colmajor(a, k) ==
  [dtype |-> a.dtype,
   shape |-> <<a.shape[1]>>,
   flat |-> [i \in 1..a.shape[1] |-> a.flat[k * a.shape[1] + i]],
   base |-> "data"]

\* A column taken by advanced indexing (data[:, [k]]) or .copy(): same
\* cells, but a new array that owns them.
Column_copy(a, k) ==
  [dtype |-> a.dtype,
   shape |-> <<a.shape[1]>>,
   flat |-> [i \in 1..a.shape[1] |-> a.flat[(i - 1) * a.shape[2] + k + 1]],
   base |-> "none"]

\* a[:, k]: IndexError unless a has two axes and k is within the second.
ColOK(a, k) == Len(a.shape) >= 2 /\ k < a.shape[2]

Column(a, k) ==
  [dtype |-> a.dtype,
   shape |-> <<a.shape[1]>>,
   flat |-> [i \in 1..a.shape[1] |-> a.flat[(i - 1) * a.shape[2] + k + 1]],
   base |-> "data"]

\* a[0:n]: IndexError on a 0-d array; otherwise the first min(n, len) items
\* along the first axis.
SliceToOK(a) == Len(a.shape) >= 1

SliceTo(a, n) ==
  LET m == Min(n, a.shape[1])
      w == IF Len(a.shape) >= 2 THEN a.shape[2] ELSE 1
  IN [dtype |-> a.dtype,
      shape |-> <<m>> \o Tail(a.shape),
      flat |-> SubSeq(a.flat, 1, m * w),
      base |-> "view"]

\* A cast through an unsigned type: the sign is lost.
TruncCell_unsigned(c, nanInt) ==
  IF c.k # "num" THEN nanInt ELSE Num((Abs(c.t) \div 10) * 10)

\* The float -> int64 cast of one cell: truncation toward zero; the cast of
\* nan is invalid and yields what the platform's conversion yields (nanInt).
TruncCell(c, nanInt) ==
  IF c.k # "num" THEN nanInt
  ELSE IF c.t >= 0 THEN Num((c.t \div 10) * 10)
       ELSE Num(-(((-c.t) \div 10) * 10))

\* a.astype(int): always a new array that owns its cells.
astype_int(a, nanInt) ==
  [dtype |-> "int64",
   shape |-> a.shape,
   flat |-> [i \in 1..Len(a.flat) |-> TruncCell(a.flat[i], nanInt)],
   base |-> "none"]

\* The outcomes of casting nan to int64: INT64_MIN (x86-64) or 0 (aarch64).
NanCastOutcomes == {IntMin, Num(0)}

\* ---------------------------------------------------------------- files
Cols(s) == CASE s = "LP" -> 3 [] s = "SD" -> 5 [] OTHER -> 1

Cell(seed, i, k) == NumTok[((seed + 5 * i + k) % Len(NumTok)) + 1]

HeaderLine(s) ==
  CASE s = "LP" -> <<"Year", "PopIndia", "PopChina">>
    [] s = "SD" -> <<"Entry", "P", "R", "nu", "Type">>
    [] OTHER -> <<>>

Defects(s, n) ==
  {[kind |-> "none", line |-> 0, col |-> 0]}
  \cup {[kind |-> kd, line |-> 0, col |-> 0] :
          kd \in {"allshort", "alllong", "noheader"}}
  \cup {[kind |-> kd, line |-> i, col |-> 0] :
          kd \in {"short", "long", "blank"}, i \in 1..n}
  \cup {[kind |-> kd, line |-> i, col |-> c] :
          kd \in (IF s = "DT" THEN {"nonnum"} ELSE {"nonnum", "missing"}),
          i \in 1..n, c \in 1..Cols(s)}

DataLine(s, seed, d, i) ==
  LET w == CASE d.kind = "allshort" -> Cols(s) - 1
             [] d.kind = "alllong" -> Cols(s) + 1
             [] d.kind = "short" /\ d.line = i -> Cols(s) - 1
             [] d.kind = "long" /\ d.line = i -> Cols(s) + 1
             [] d.kind = "blank" /\ d.line = i -> 0
             [] OTHER -> Cols(s)
  IN [c \in 1..w |->
        IF d.line = i /\ d.col = c
        THEN (IF d.kind = "nonnum" THEN "x" ELSE "")
        ELSE Cell(seed, i, c)]

MkFile(s, n, seed, d) ==
  LET lines == [i \in 1..n |-> DataLine(s, seed, d, i)]
  IN IF s = "DT" \/ d.kind = "noheader" THEN lines
     ELSE <<HeaderLine(s)>> \o lines

\* ---------------------------------------------------------------- machine
Init ==
  /\ script \in Scripts
  /\ exists \in BOOLEAN
  /\ \E n \in 0..MaxDataLines, seed \in 0..MaxSeed :
       \E d \in Defects(script, n) :
         file = IF exists THEN MkFile(script, n, seed, d) ELSE <<>>
  /\ pc = 1
  /\ status = "running"
  /\ err = "none"
  /\ data = NoArr
  /\ env = [v \in VarNames |-> NoArr]
  /\ out = <<>>

cur == Prog(script)[pc]

Running(op) == status = "running" /\ cur.op = op

Advance ==
  /\ pc' = pc + 1
  /\ status' = IF pc + 1 > Len(Prog(script)) THEN "done" ELSE "running"
  /\ err' = err

Raise(e) ==
  /\ pc' = pc
  /\ status' = "failed"
  /\ err' = e

\* data = np.genfromtxt(...)
Genfromtxt ==
  /\ Running("genfromtxt")
  /\ LET r == genfromtxt(exists, file, cur.k)
     IN IF r.err # "none"
        THEN Raise(r.err) /\ data' = data
        ELSE Advance /\ data' = r.arr
  /\ UNCHANGED <<script, exists, file, env, out>>

\* print(data.shape)
PrintShape ==
  /\ Running("print_shape")
  /\ out' = Append(out, [line |-> cur.line, what |-> "shape",
                         shape |-> data.shape, val |-> <<>>])
  /\ Advance
  /\ UNCHANGED <<script, exists, file, data, env>>

\* var = data[:, k]
ColStmt ==
  /\ Running("col")
  /\ IF ColOK(data, cur.k)
     THEN Advance /\ env' = [env EXCEPT ![cur.var] = Column(data, cur.k)]
     ELSE Raise("IndexError") /\ env' = env
  /\ UNCHANGED <<script, exists, file, data, out>>

\* The cast done in place: data[:, k] = data[:, k].astype(int).
ColAstypeStmt_inplace ==
  /\ Running("col_astype_int")
  /\ IF ColOK(data, cur.k)
     THEN /\ Advance
          /\ \E nanInt \in NanCastOutcomes :
               /\ env' = [env EXCEPT
                           ![cur.var] = astype_int(Column(data, cur.k), nanInt)]
               /\ data' = [data EXCEPT !.flat =
                             [j \in 1..Len(data.flat) |->
                                IF (j - 1) % data.shape[2] = cur.k
                                THEN TruncCell(data.flat[j], nanInt)
                                ELSE data.flat[j]]]
     ELSE Raise("IndexError") /\ env' = env /\ data' = data
  /\ UNCHANGED <<script, exists, file, out>>

\* var = data[:, k].astype(int)
ColAstypeStmt ==
  /\ Running("col_astype_int")
  /\ IF ColOK(data, cur.k)
     THEN /\ Advance
          /\ \E nanInt \in NanCastOutcomes :
               env' = [env EXCEPT
                         ![cur.var] = astype_int(Column(data, cur.k), nanInt)]
     ELSE Raise("IndexError") /\ env' = env
  /\ UNCHANGED <<script, exists, file, data, out>>

\* print(var)
PrintStmt ==
  /\ Running("print")
  /\ out' = Append(out, [line |-> cur.line, what |-> cur.var,
                         shape |-> env[cur.var].shape,
                         val |-> env[cur.var].flat])
  /\ Advance
  /\ UNCHANGED <<script, exists, file, data, env>>

\* print(var[0:k]), var being data itself in DecayTimes
PrintHeadStmt ==
  /\ Running("print_head")
  /\ LET a == IF cur.var = "data" THEN data ELSE env[cur.var]
     IN IF SliceToOK(a)
        THEN /\ Advance
             /\ out' = Append(out, [line |-> cur.line, what |-> cur.var,
                                    shape |-> SliceTo(a, cur.k).shape,
                                    val |-> SliceTo(a, cur.k).flat])
        ELSE Raise("IndexError") /\ out' = out
  /\ UNCHANGED <<script, exists, file, data, env>>

Next ==
  \/ Genfromtxt
  \/ PrintShape
  \/ ColStmt
  \/ ColAstypeStmt
  \/ PrintStmt
  \/ PrintHeadStmt

Spec == Init /\ [][Next]_vars

\* ---------------------------------------------------------------- inputs
\* The documented layout of each file: the number of header lines and of
\* columns (Cols), and the classes of input the claims speak of.
HeaderLines(s) == IF s = "DT" THEN 0 ELSE 1

DataIdx == (HeaderLines(script) + 1)..Len(file)

NonBlankIdx == {i \in DataIdx : Len(file[i]) > 0}

Absent == ~exists

WellFormed ==
  /\ exists
  /\ DataIdx # {}
  /\ \A i \in DataIdx :
       /\ Len(file[i]) = Cols(script)
       /\ \A c \in 1..Len(file[i]) : IsNumeric(file[i][c])

EmptyOrHeaderOnly == exists /\ DataIdx = {}

WrongCols == exists /\ \E i \in NonBlankIdx : Len(file[i]) # Cols(script)

NonNumeric ==
  exists /\ \E i \in DataIdx : \E c \in 1..Len(file[i]) : ~IsNumeric(file[i][c])

Malformed == EmptyOrHeaderOnly \/ WrongCols \/ NonNumeric

Ragged ==
  exists /\ \E i, j \in NonBlankIdx : Len(file[i]) # Len(file[j])

\* ---------------------------------------------------------------- C1
\* C1 as stated: on an absent or malformed input nothing is ever printed and
\* the script ends in an error.
C1_MalformedFailsBeforePrint ==
  (Absent \/ Malformed) => (out = <<>> /\ status # "done")

\* C1 amended: the script fails at the load, before any print, exactly when
\* the file is absent or its non-blank data lines differ in field count;
\* then data is never assigned and the error is OSError resp. ValueError.
C1_LoadFailsBeforePrint ==
  /\ (Absent \/ Ragged) =>
       /\ out = <<>> /\ data = NoArr /\ pc = 1
       /\ status \in {"running", "failed"}
       /\ status = "failed" => err = (IF Absent THEN "OSError" ELSE "ValueError")
  /\ (status = "failed" /\ out = <<>>) => (Absent \/ Ragged)

C1_Witness ==
  status = "failed" /\ Ragged /\ err = "ValueError" /\ out = <<>>

\* ---------------------------------------------------------------- C2
\* C2 as stated: after the load of a well-formed file the table has two
\* axes, one row per record and the documented number of columns, so that
\* data[:, k] is defined for every documented column k.
C2_ColumnCountMatches ==
  (WellFormed /\ data # NoArr) =>
     /\ Len(data.shape) = 2
     /\ data.shape[2] = Cols(script)
     /\ \A k \in 0..(Cols(script) - 1) : ColOK(data, k)

\* ---------------------------------------------------------------- C3
\* C3 as stated: a script fails at the load or not at all.
C3_NoFailureAfterLoad == status = "failed" => pc = 1

\* The files whose loaded array lacks an axis or a column the script indexes.
width == IF NonBlankIdx = {} THEN 0
         ELSE Len(file[CHOOSE i \in NonBlankIdx : TRUE])

SliceFails ==
  IF script = "DT"
  THEN Cardinality(NonBlankIdx) = 1 /\ width = 1
  ELSE Cardinality(NonBlankIdx) < 2 \/ width < Cols(script)

\* C3 amended: a failed load prints nothing; a successful load is followed
\* by the shape print, after which the only possible failure is an
\* IndexError at a slice, raised exactly for the files of SliceFails; every
\* other file runs to the last statement.
C3_FailsAtLoadOrSlice ==
  /\ (status = "failed" /\ pc = 1) =>
        (err \in {"OSError", "ValueError"} /\ data = NoArr /\ out = <<>>)
  /\ (status = "failed" /\ pc > 1) =>
        /\ err = "IndexError"
        /\ Prog(script)[pc].op \in {"col", "col_astype_int", "print_head"}
        /\ Len(out) = 1 /\ out[1].what = "shape"
        /\ SliceFails
  /\ status = "done" => (~SliceFails /\ pc = Len(Prog(script)) + 1)
  /\ pc > 2 => (Len(out) >= 1 /\ out[1].what = "shape")

C3_Witness ==
  status = "failed" /\ err = "IndexError" /\ Len(out) = 1 /\ SliceFails

\* ---------------------------------------------------------------- C4
\* The documented position (from 1) of each printed column in its file.
SchemaCol(v) ==
  CASE v \in {"year", "index", "data"} -> 1
    [] v \in {"PopIndia", "P"} -> 2
    [] v \in {"PopChina", "R"} -> 3
    [] v = "freq" -> 4
    [] OTHER -> 5

IntVars == {"index", "type"}

\* The field of column v in the i-th data row of the file.
Field(i, v) == file[HeaderLines(script) + i][SchemaCol(v)]

\* p is f truncated toward zero to a whole number.
IsTruncOf(p, f) ==
  /\ p.k = "num" /\ f.k = "num"
  /\ p.t % 10 = 0
  /\ Abs(p.t) <= Abs(f.t)
  /\ Abs(f.t - p.t) < 10

\* C4 as stated: for a well-formed file the i-th printed value of every
\* column is the value of that column's field in the i-th data row.
C4_SampleEqualsFile ==
  WellFormed =>
    \A j \in 1..Len(out) :
      out[j].what # "shape" =>
        /\ Len(out[j].val) > 0
        /\ \A i \in 1..Len(out[j].val) :
             out[j].val[i] = float(Field(i, out[j].what))

\* C4 amended: the same, except that SignalDetection prints index and type
\* as the field truncated toward zero to an integer.
C4_SampleEqualsFileUpToCast ==
  WellFormed =>
    \A j \in 1..Len(out) :
      out[j].what # "shape" =>
        /\ Len(out[j].val) > 0
        /\ \A i \in 1..Len(out[j].val) :
             IF out[j].what \in IntVars
             THEN IsTruncOf(out[j].val[i], float(Field(i, out[j].what)))
             ELSE out[j].val[i] = float(Field(i, out[j].what))

C4_Witness ==
  /\ status = "done" /\ script = "SD" /\ WellFormed
  /\ \E i \in 1..Len(out[2].val) : Field(i, "index") \in {"2.5", "-2.5"}

\* ---------------------------------------------------------------- C5
\* C5: once data is assigned no step changes it.
C5_NoMutationAfterLoad == [][data # NoArr => data' = data]_vars

C5_Witness ==
  /\ status = "done" /\ script = "SD" /\ data # NoArr
  /\ \E i \in 1..Len(env["index"].flat) :
       env["index"].flat[i] # data.flat[(i - 1) * data.shape[2] + 1]

\* ---------------------------------------------------------------- C6
\* Column v of data, read from data's cells.
DataColumn(v) ==
  [i \in 1..data.shape[1] |->
     data.flat[(i - 1) * data.shape[2] + SchemaCol(v)]]

\* C6 as stated: every assigned column variable is a view into data that
\* shows the cells of its column.
C6_AllColumnsAreViews ==
  \A v \in VarNames :
    env[v] # NoArr => (env[v].base = "data" /\ env[v].flat = DataColumn(v))

\* C6 amended: year, PopIndia, PopChina, P, R and freq are such views;
\* index and type are int64 arrays that own their cells, each cell being the
\* column's cell truncated toward zero (or the platform's result for nan).
C6_FloatColumnsAreViews ==
  \A v \in VarNames :
    env[v] # NoArr =>
      IF v \in IntVars
      THEN /\ env[v].base = "none" /\ env[v].dtype = "int64"
           /\ Len(env[v].flat) = data.shape[1]
           /\ \A i \in 1..Len(env[v].flat) :
                \/ IsTruncOf(env[v].flat[i], DataColumn(v)[i])
                \/ DataColumn(v)[i].k = "nan" /\ env[v].flat[i] \in NanCastOutcomes
      ELSE /\ env[v].base = "data" /\ env[v].dtype = "float64"
           /\ env[v].flat = DataColumn(v)

C6_Witness ==
  /\ status = "done" /\ script = "SD"
  /\ env["P"].base = "data" /\ env["type"].base = "none"

\* ---------------------------------------------------------------- C7
\* The columns in the order of the documented schema.
PrintOrder(s) ==
  CASE s = "LP" -> <<"year", "PopIndia", "PopChina">>
    [] s = "SD" -> <<"index", "P", "R", "freq", "type">>
    [] OTHER -> <<"data">>

\* C7 as stated: a finished run has printed the shape once and first, then
\* the columns in schema order, each as its first min(N, rows) rows: N = 3
\* in SignalDetection, 10 in DecayTimes, and one of these in
\* LargestPopulation.
C7_ShapeThenFirstN ==
  status = "done" =>
    /\ Len(out) = 1 + Len(PrintOrder(script))
    /\ out[1].what = "shape"
    /\ \A j \in 2..Len(out) :
         /\ out[j].what = PrintOrder(script)[j - 1]
         /\ \E N \in (CASE script = "SD" -> {3} [] script = "DT" -> {10}
                         [] OTHER -> {3, 10}) :
              out[j].shape[1] = Min(N, data.shape[1])

\* C7 amended: the shape of data is printed once and first; the column
\* prints follow in schema order; SignalDetection prints the first
\* min(3, rows) entries of each column, DecayTimes the first min(10, rows)
\* entries of data, and LargestPopulation prints every row of each column;
\* a finished run has made all of these prints.
C7_ShapeThenColumns ==
  /\ Len(out) <= 1 + Len(PrintOrder(script))
  /\ status = "done" => Len(out) = 1 + Len(PrintOrder(script))
  /\ Len(out) >= 1 =>
       (out[1].what = "shape" /\ out[1].shape = data.shape)
  /\ \A j \in 2..Len(out) :
       /\ out[j].what = PrintOrder(script)[j - 1]
       /\ out[j].shape[1] =
            (CASE script = "SD" -> Min(3, data.shape[1])
               [] script = "DT" -> Min(10, data.shape[1])
               [] OTHER -> data.shape[1])
       /\ out[j].what \notin (IntVars \cup {"data"}) =>
            out[j].val = SubSeq(DataColumn(out[j].what), 1, out[j].shape[1])
       /\ out[j].what = "data" =>
            out[j].val = SubSeq(data.flat, 1, Len(out[j].val))

C7_Witness ==
  /\ status = "done" /\ script = "LP"
  /\ Len(out) = 4 /\ Len(out[4].val) > 10

\* ---------------------------------------------------------------- C8
\* C8 as stated: the table of a well-formed file has one row per line after
\* the header (no header in DecayTimes), in the order of the lines.
C8_OneRowPerDataLine ==
  (WellFormed /\ data # NoArr) =>
     /\ Len(data.shape) >= 1
     /\ data.shape[1] = Len(file) - HeaderLines(script)
     /\ \A i \in 1..data.shape[1] : \A c \in 1..Cols(script) :
          data.flat[(i - 1) * Cols(script) + c]
            = float(file[HeaderLines(script) + i][c])

\* ---------------------------------------------------------------- C9
\* The documented domains of the two integer columns of SignalDetection.
IndexDomain == {"0", "1", "7", "12"}
TypeDomain == {"-1", "0", "1"}

Rectangular == exists /\ \A i \in DataIdx : Len(file[i]) = Cols(script)

\* C9: in SignalDetection, for a file of five-field lines, index[i] and
\* type[i] equal the row's field whenever the field is in its documented
\* domain, and columns 0 and 4 of data still hold the file's values after
\* the casts.
C9_CastsLossless ==
  (script = "SD" /\ Rectangular) =>
    \A v \in IntVars :
      env[v] # NoArr =>
        \A i \in 1..Len(env[v].flat) :
          /\ Field(i, v) \in (IF v = "index" THEN IndexDomain ELSE TypeDomain)
               => env[v].flat[i] = float(Field(i, v))
          /\ IsNumeric(Field(i, v))
               => data.flat[(i - 1) * 5 + SchemaCol(v)] = float(Field(i, v))

C9_Witness ==
  /\ status = "done" /\ script = "SD" /\ Rectangular
  /\ \E i \in 1..Len(env["type"].flat) :
       /\ Field(i, "type") = "-1" /\ env["type"].flat[i] = Num(-10)
       /\ Field(i, "index") = "7" /\ env["index"].flat[i] = Num(70)
====
